---- MODULE Spec2Model ----
(***************************************************************************)
(* Inverted-index construction (indexer.py) and boolean-AND retrieval      *)
(* (search.py).                                                            *)
(*                                                                         *)
(* Three specifications share the variables below:                         *)
(*   Spec       - one run of indexer.py's main block: scan the corpus,     *)
(*                spill partial indexes, merge them, write the final index *)
(*   SpecMerge  - merge_partials and load_query_postings over an arbitrary *)
(*                partial_indexes/ directory (stale or damaged files too)  *)
(*   SpecSearch - and_search over an index on disk and a doc_id map        *)
(*                                                                         *)
(* Text files are sequences of lines; a line is what split(":", 1) and     *)
(* split() see of it: whether it has a colon, the term before it and the   *)
(* whitespace-separated fields after it.  Fields are strings; int() is     *)
(* modelled on them (IsInt / ParseInt), str() by Str.                      *)
(***************************************************************************)
EXTENDS Integers, Sequences, FiniteSets, TLC

VARIABLES
    pc,                 \* position of the program in the specification at hand
    MAX_TERMS_IN_MEMORY,\* indexer.py:23, a parameter of the run
    scanned,            \* the documents os.walk has yielded so far, in order
    inverted_index,     \* indexer.py:147  term -> (doc_id -> tf)
    doc_id_to_url,      \* indexer.py:149
    doc_id,             \* indexer.py:150
    part_num,           \* indexer.py:151
    partial_dir,        \* does partial_indexes/ exist
    partial_files,      \* partial_indexes/partial_<n>.txt : n -> lines
    final_index_file,   \* final_index/final_index.txt : NoFile or lines
    find_index,         \* what merge_partials returned
    alt_index,          \* the same files merged in the order alt_order
    alt_order,
    loaded,             \* what load_query_postings returned
    query,              \* the normalized query terms (normalize_query's result)
    top_k,
    doc_id_map,         \* search.py's doc_id -> URL map
    outcome             \* what and_search did: a result list or an exception

vars == <<pc, MAX_TERMS_IN_MEMORY, scanned, inverted_index, doc_id_to_url,
          doc_id, part_num, partial_dir, partial_files, final_index_file,
          find_index, alt_index, alt_order, loaded, query, top_k, doc_id_map,
          outcome>>

indexer_vars == <<MAX_TERMS_IN_MEMORY, scanned, inverted_index, doc_id_to_url,
                  doc_id, part_num>>
disk_vars    == <<partial_dir, partial_files, final_index_file>>
merge_vars   == <<find_index, alt_index, alt_order, loaded>>
search_vars  == <<query, top_k, doc_id_map, outcome>>

----------------------------------------------------------------------------
(* Bounds of the model *)

MaxDocs      == 3   \* documents in a corpus
MaxTokens    == 1   \* tokens of a document's visible text
MaxImportant == 1   \* tokens of a document's title/headings/bold text
MaxThreshold == 3   \* values of MAX_TERMS_IN_MEMORY tried: 1..MaxThreshold
MaxDiskLines == 2   \* lines in partial_indexes/ altogether (SpecMerge)
MaxFields    == 4   \* fields after the colon of such a line
MaxDocId     == 3   \* doc_ids of the index searched (SpecSearch)
MaxTf        == 2   \* term frequencies of that index
MaxTopK      == 2   \* top_k is drawn from 0..MaxTopK
MaxQueryLen  == 2   \* terms of a normalized query

\* Terms, in the order Python's sorted() puts them.
TermOrder == <<"a", "b", "c">>
Terms     == {TermOrder[i] : i \in 1..Len(TermOrder)}
Urls      == {"u1", "u2"}
\* data.get("url", ""): a URL, or "" when the JSON has none
DocumentUrls == {"", "u1"}
QueryTerms == {"a", "b"}
\* Fields of a postings list: decimal integers and one that int() rejects.
Fields    == {"1", "2", "x"}
\* partial_2.txt and partial_10.txt: sorted() lists partial_10.txt first.
FileNumbers == {2, 10}

----------------------------------------------------------------------------
(* Python dict, list and str helpers *)

Empty == <<>>          \* {} and [] alike

Range(s) == {s[i] : i \in DOMAIN s}

\* d[k] = v
Put(d, k, v) == [x \in (DOMAIN d) \cup {k} |-> IF x = k THEN v ELSE d[x]]

\* d.get(k, default)
Get(d, k, default) == IF k \in DOMAIN d THEN d[k] ELSE default

SeqsUpTo(S, n) == UNION {[1..k -> S] : k \in 0..n}

Min(S) == CHOOSE x \in S : \A y \in S : x <= y

RECURSIVE SortedInts(_)
\* sorted() of a set of integers
SortedInts(S) ==
    IF S = {} THEN <<>> ELSE <<Min(S)>> \o SortedInts(S \ {Min(S)})

\* sorted() of a set of terms
SortedTerms(S) == SelectSeq(TermOrder, LAMBDA t : t \in S)

Digit == <<"0", "1", "2", "3", "4", "5", "6", "7", "8", "9">>

RECURSIVE Str(_)
\* str(n) of a non-negative integer
Str(n) == IF n < 10 THEN Digit[n + 1] ELSE Str(n \div 10) \o Digit[(n % 10) + 1]

\* The integers whose decimal form can occur in a file of the model, and
\* their decimal forms.
IntMax == MaxTokens + 5 * MaxImportant + MaxDocs + MaxDocId + MaxTf
Decimal == [n \in 0..IntMax |-> Str(n)]

\* int(s) succeeds (no ValueError)
IsInt(s) == \E n \in 0..IntMax : Decimal[n] = s

\* int(s)
ParseInt(s) == CHOOSE n \in 0..IntMax : Decimal[n] = s

----------------------------------------------------------------------------
(* indexer.py *)

RECURSIVE Count(_, _)
Count(tokens, t) ==
    IF tokens = <<>> THEN 0
    ELSE (IF Head(tokens) = t THEN 1 ELSE 0) + Count(Tail(tokens), t)

\* The term_freq dict of build_index_for_one_doc: +1 per token, +5 per
\* important token.
TermFreq(tokens, important_tokens) ==
    [t \in Range(tokens) \cup Range(important_tokens) |->
        Count(tokens, t) + 5 * Count(important_tokens, t)]

\* inverted_index[term][doc_id] = tf for every term of the document
\* (inverted_index is a defaultdict(dict)).
build_index_for_one_doc(d, tokens, important_tokens, index) ==
    LET term_freq == TermFreq(tokens, important_tokens)
    IN  [t \in (DOMAIN index) \cup (DOMAIN term_freq) |->
            IF t \in DOMAIN term_freq
            THEN Put(Get(index, t, Empty), d, term_freq[t])
            ELSE index[t]]

RECURSIVE PostingsFields(_, _)
\* "doc_id tf doc_id tf ..." for the doc_ids in the given order
PostingsFields(postings, ids) ==
    IF ids = <<>> THEN <<>>
    ELSE <<Str(Head(ids)), Str(postings[Head(ids)])>>
            \o PostingsFields(postings, Tail(ids))

\* f"{term}: {postings_str}\n"
IndexLine(term, postings) ==
    [colon |-> TRUE, term |-> term,
     fields |-> PostingsFields(postings, SortedInts(DOMAIN postings))]

\* The lines write_partial_index writes: terms sorted, postings by doc_id.
write_partial_index(index) ==
    LET ts == SortedTerms(DOMAIN index)
    IN  [i \in 1..Len(ts) |-> IndexLine(ts[i], index[ts[i]])]

\* The threshold test with > for >=
ShouldSpill_strict(index, max_terms) == Cardinality(DOMAIN index) > max_terms

\* if len(inverted_index) >= MAX_TERMS_IN_MEMORY
ShouldSpill(index, max_terms) == Cardinality(DOMAIN index) >= max_terms

\* A run that leaves out the final spill
HasResidual_never(index) == FALSE

\* if inverted_index:   (the final spill)
HasResidual(index) == index # Empty

RECURSIVE DigitsOf(_)
\* The decimal digits of n, as they stand in the name partial_<n>.txt.
DigitsOf(n) == IF n < 10 THEN <<n>> ELSE Append(DigitsOf(n \div 10), n % 10)

RECURSIVE LexLess(_, _)
\* String order of two file names that differ in their number only: the
\* "." that follows the number sorts before every digit, so a proper prefix
\* comes first (partial_1.txt < partial_10.txt < partial_2.txt).
LexLess(a, b) ==
    IF a = <<>> THEN b # <<>>
    ELSE IF b = <<>> THEN FALSE
    ELSE IF Head(a) # Head(b) THEN Head(a) < Head(b)
    ELSE LexLess(Tail(a), Tail(b))

FileNameLess(m, n) == LexLess(DigitsOf(m), DigitsOf(n))

RECURSIVE SortedFileNames(_)
\* sorted(os.listdir(partial_path)), as the numbers of the files
SortedFileNames(S) ==
    IF S = {} THEN <<>>
    ELSE LET first == CHOOSE m \in S : \A n \in S \ {m} : FileNameLess(m, n)
         IN  <<first>> \o SortedFileNames(S \ {first})

RECURSIVE MergePairs(_, _, _)
\* indexer.py:122-128: each docID/tf pair is parsed on its own; a pair that
\* fails int() is passed over, a pair that parses is assigned.
MergePairs(index, term, fields) ==
    IF Len(fields) < 2 THEN index
    ELSE LET rest == SubSeq(fields, 3, Len(fields))
         IN  IF IsInt(fields[1]) /\ IsInt(fields[2])
             THEN MergePairs(
                      Put(index, term,
                          Put(Get(index, term, Empty),
                              ParseInt(fields[1]), ParseInt(fields[2]))),
                      term, rest)
             ELSE MergePairs(index, term, rest)

\* The loop body without the test for an odd number of fields
MergeLine_no_parity_test(index, line) ==
    IF ~line.colon THEN index
    ELSE MergePairs(index, line.term, line.fields)

\* indexer.py:111-128, the body of the loop over the lines of a file
MergeLine(index, line) ==
    IF ~line.colon THEN index
    ELSE IF Len(line.fields) % 2 # 0 THEN index
    ELSE MergePairs(index, line.term, line.fields)

RECURSIVE MergeFile(_, _)
MergeFile(index, lines) ==
    IF lines = <<>> THEN index
    ELSE MergeFile(MergeLine(index, Head(lines)), Tail(lines))

RECURSIVE MergeFiles(_, _, _)
\* indexer.py:105-128, the loop over the files, taken in the given order
MergeFiles(index, files, order) ==
    IF order = <<>> THEN index
    ELSE MergeFiles(MergeFile(index, files[Head(order)]), files, Tail(order))

\* merge_partials(): the files in filename-sorted order
merge_partials(files) == MergeFiles(Empty, files, SortedFileNames(DOMAIN files))

\* The lines write_final_index writes.
write_final_index(index) ==
    LET ts == SortedTerms(DOMAIN index)
    IN  [i \in 1..Len(ts) |-> IndexLine(ts[i], index[ts[i]])]

----------------------------------------------------------------------------
(* search.py *)

NoFile == [exists |-> FALSE, lines |-> <<>>]
File(lines) == [exists |-> TRUE, lines |-> lines]

RECURSIVE ParsePairs(_, _)
\* search.py:106-112
ParsePairs(postings, entries) ==
    IF Len(entries) < 2 THEN postings
    ELSE LET rest == SubSeq(entries, 3, Len(entries))
         IN  IF IsInt(entries[1]) /\ IsInt(entries[2])
             THEN ParsePairs(Put(postings, ParseInt(entries[1]),
                                 ParseInt(entries[2])), rest)
             ELSE ParsePairs(postings, rest)

\* parse_postings_line(line): the postings dict of a line that has a colon
parse_postings_line(line) ==
    IF Len(line.fields) % 2 # 0 THEN Empty
    ELSE ParsePairs(Empty, line.fields)

RECURSIVE AddPostings(_, _, _)
\* merged[term][doc_id] += tf for the postings of one line, ids in the
\* given order (merged[term] is a defaultdict(int))
AddPostings(doc_tf, postings, ids) ==
    IF ids = <<>> THEN doc_tf
    ELSE AddPostings(
             Put(doc_tf, Head(ids), Get(doc_tf, Head(ids), 0) + postings[Head(ids)]),
             postings, Tail(ids))

\* search.py:128-138 and 152-163, the body of the loop over the lines
LoadLine(merged, needed_terms, line) ==
    IF ~line.colon THEN merged
    ELSE IF line.term \notin needed_terms THEN merged
    ELSE LET postings == parse_postings_line(line)
         IN  [merged EXCEPT ![line.term] =
                 AddPostings(@, postings, SortedInts(DOMAIN postings))]

RECURSIVE LoadFile(_, _, _)
LoadFile(merged, needed_terms, lines) ==
    IF lines = <<>> THEN merged
    ELSE LoadFile(LoadLine(merged, needed_terms, Head(lines)),
                  needed_terms, Tail(lines))

RECURSIVE LoadFiles(_, _, _, _)
\* search.py:146-163
LoadFiles(merged, needed_terms, files, order) ==
    IF order = <<>> THEN merged
    ELSE LoadFiles(LoadFile(merged, needed_terms, files[Head(order)]),
                   needed_terms, files, Tail(order))

\* A loader that takes a missing index for an empty one
load_query_postings_no_raise(query_terms, final, dir, files) ==
    LET needed_terms == Range(query_terms)
        merged       == [t \in needed_terms |-> Empty]
    IN  IF final.exists
        THEN [error |-> FALSE,
              postings |-> LoadFile(merged, needed_terms, final.lines)]
        ELSE [error |-> FALSE,
              postings |-> LoadFiles(merged, needed_terms, files,
                                     SortedFileNames(DOMAIN files))]

\* load_query_postings(query_terms): the final index if it exists, else the
\* partial files, else FileNotFoundError.
load_query_postings(query_terms, final, dir, files) ==
    LET needed_terms == Range(query_terms)
        merged       == [t \in needed_terms |-> Empty]
    IN  IF final.exists
        THEN [error |-> FALSE,
              postings |-> LoadFile(merged, needed_terms, final.lines)]
        ELSE IF ~dir
        THEN [error |-> TRUE, postings |-> Empty]
        ELSE [error |-> FALSE,
              postings |-> LoadFiles(merged, needed_terms, files,
                                     SortedFileNames(DOMAIN files))]

\* math.log(n) in thousandths, for the integers the model takes logarithms
\* of.  Scores are computed in fixed point: the floats of search.py order
\* candidates the same way wherever these values differ.
LnMilliTable ==
    <<0, 693, 1099, 1386, 1609, 1792, 1946, 2079, 2197, 2303, 2398, 2485,
      2565, 2639, 2708, 2773>>
LnMilli(n) == LnMilliTable[n]

\* idf[term] = math.log((total_docs + 1) / (df + 1)) + 1.0, in thousandths
Idf(total_docs, df) == LnMilli(total_docs + 1) - LnMilli(df + 1) + 1000

RECURSIVE Score(_, _, _, _)
\* search.py:205-210: the sum over the query terms, in the query's order,
\* of (1 + log(tf)) * idf[term] where tf > 0; in millionths.
Score(d, terms, postings_by_term, total_docs) ==
    IF terms = <<>> THEN 0
    ELSE LET term == Head(terms)
             tf   == Get(postings_by_term[term], d, 0)
             rest == Score(d, Tail(terms), postings_by_term, total_docs)
         IN  IF tf > 0
             THEN (1000 + LnMilli(tf))
                      * Idf(total_docs, Cardinality(DOMAIN postings_by_term[term]))
                  + rest
             ELSE rest

\* The documents of the first term, whatever the other terms hold
CandidateDocs_first_term(terms, postings_by_term) ==
    DOMAIN postings_by_term[terms[1]]

\* candidate_docs = set.intersection(*term_docs)
CandidateDocs(terms, postings_by_term) ==
    {d \in DOMAIN postings_by_term[terms[1]] :
        \A i \in DOMAIN terms : d \in DOMAIN postings_by_term[terms[i]]}

\* key=lambda item: (-item[1], item[0])
RankedBefore(x, y) ==
    \/ x.score > y.score
    \/ x.score = y.score /\ x.doc_id < y.doc_id

RECURSIVE SortScored(_)
\* scored.sort(key=...) of a set of (doc_id, score) items
SortScored(S) ==
    IF S = {} THEN <<>>
    ELSE LET first == CHOOSE x \in S : \A y \in S \ {x} : RankedBefore(x, y)
         IN  <<first>> \o SortScored(S \ {first})

\* if len(results) >= top_k: break
ResultsFull(results, k) == Len(results) >= k

RECURSIVE CollectResults(_, _, _, _, _)
\* search.py:215-230: the loop over the ranked items
CollectResults(scored, results, seen_urls, map, k) ==
    IF scored = <<>> THEN results
    ELSE LET item == Head(scored)
             url  == Get(map, item.doc_id, "")
         IN  IF url \in seen_urls
             THEN CollectResults(Tail(scored), results, seen_urls, map, k)
             ELSE LET appended ==
                          Append(results, [doc_id |-> item.doc_id, url |-> url,
                                           score |-> item.score])
                  IN  IF ResultsFull(appended, k) THEN appended
                      ELSE CollectResults(Tail(scored), appended,
                                          seen_urls \cup {url}, map, k)

Results(list) == [kind |-> "results", results |-> list]
Raised(exception) == [kind |-> exception, results |-> <<>>]

\* and_search(query, doc_id_map, top_k), from the normalized terms on
and_search(terms, map, k, final, dir, files) ==
    IF terms = <<>> THEN Results(<<>>)
    ELSE LET load == load_query_postings(terms, final, dir, files)
             postings_by_term == load.postings
         IN  IF load.error THEN Raised("FileNotFoundError")
             ELSE IF \E i \in DOMAIN terms : postings_by_term[terms[i]] = Empty
             THEN Results(<<>>)
             ELSE LET candidate_docs == CandidateDocs(terms, postings_by_term)
                      total_docs == Cardinality(DOMAIN map)
                      scored ==
                          {[doc_id |-> d,
                            score |-> Score(d, terms, postings_by_term, total_docs)]
                               : d \in candidate_docs}
                  IN  IF candidate_docs = {} THEN Results(<<>>)
                      ELSE Results(CollectResults(SortScored(scored), <<>>, {},
                                                  map, k))


----------------------------------------------------------------------------
(* Spec: one run of indexer.py's main block (indexer.py:145-188) *)

NoOutcome == [kind |-> "none", results |-> <<>>]

\* A scanned .json file, as the main block sees it: whether data has a
\* 'content' key, data.get("url", ""), and the stemmed tokens of the two
\* texts extract_text_from_html returns for the content.
Documents ==
    [has_content : {TRUE}, url : DocumentUrls,
     tokens : SeqsUpTo(Terms, MaxTokens),
     important_tokens : SeqsUpTo(Terms, MaxImportant)]
    \cup
    [has_content : {FALSE}, url : DocumentUrls, tokens : {<<>>},
     important_tokens : {<<>>}]

IdleMerge  == find_index = Empty /\ alt_index = Empty /\ alt_order = <<>>
              /\ loaded = Empty
IdleSearch == query = <<>> /\ top_k = 0 /\ doc_id_map = Empty
              /\ outcome = NoOutcome
IdleIndexer == MAX_TERMS_IN_MEMORY = 1 /\ scanned = <<>>
               /\ inverted_index = Empty /\ doc_id_to_url = Empty
               /\ doc_id = 1 /\ part_num = 1

Init ==
    /\ pc = "scan"
    /\ MAX_TERMS_IN_MEMORY \in 1..MaxThreshold
    /\ scanned = <<>>
    /\ inverted_index = Empty
    /\ doc_id_to_url = Empty
    /\ doc_id = 1
    /\ part_num = 1
    /\ partial_dir = FALSE
    /\ partial_files = Empty
    /\ final_index_file = NoFile
    /\ IdleMerge
    /\ IdleSearch

\* indexer.py:157-172, a document whose JSON has a 'content' key
IndexDocument ==
    /\ pc \in {"scan", "spilled"}
    /\ Len(scanned) < MaxDocs
    /\ \E doc \in Documents :
        /\ doc.has_content
        /\ scanned' = Append(scanned, doc)
        /\ doc_id_to_url' = Put(doc_id_to_url, doc_id, doc.url)
        /\ inverted_index' =
               build_index_for_one_doc(doc_id, doc.tokens,
                                       doc.important_tokens, inverted_index)
    /\ doc_id' = doc_id + 1
    /\ pc' = "check"
    /\ UNCHANGED <<MAX_TERMS_IN_MEMORY, part_num, disk_vars, merge_vars,
                   search_vars>>

\* indexer.py:162-164, a document whose JSON has no 'content' key: the URL is
\* recorded, then data['content'] raises KeyError, which nothing catches.
IndexDocumentWithoutContent ==
    /\ pc \in {"scan", "spilled"}
    /\ Len(scanned) < MaxDocs
    /\ \E doc \in Documents :
        /\ ~doc.has_content
        /\ scanned' = Append(scanned, doc)
        /\ doc_id_to_url' = Put(doc_id_to_url, doc_id, doc.url)
    /\ pc' = "aborted"
    /\ UNCHANGED <<MAX_TERMS_IN_MEMORY, inverted_index, doc_id, part_num,
                   disk_vars, merge_vars, search_vars>>

\* indexer.py:175-179
Spill ==
    /\ pc = "check"
    /\ ShouldSpill(inverted_index, MAX_TERMS_IN_MEMORY)
    /\ partial_dir' = TRUE
    /\ partial_files' =
           Put(partial_files, part_num, write_partial_index(inverted_index))
    /\ inverted_index' = Empty
    /\ part_num' = part_num + 1
    /\ pc' = "spilled"
    /\ UNCHANGED <<MAX_TERMS_IN_MEMORY, scanned, doc_id_to_url, doc_id,
                   final_index_file, merge_vars, search_vars>>

\* indexer.py:175, the threshold is not reached
NoSpill ==
    /\ pc = "check"
    /\ ~ShouldSpill(inverted_index, MAX_TERMS_IN_MEMORY)
    /\ pc' = "scan"
    /\ UNCHANGED <<indexer_vars, disk_vars, merge_vars, search_vars>>

\* indexer.py:182-184, os.walk is exhausted
FinalSpill ==
    /\ pc \in {"scan", "spilled"}
    /\ IF HasResidual(inverted_index)
       THEN /\ partial_dir' = TRUE
            /\ partial_files' =
                   Put(partial_files, part_num,
                       write_partial_index(inverted_index))
            /\ inverted_index' = Empty
       ELSE UNCHANGED <<partial_dir, partial_files, inverted_index>>
    /\ pc' = "merge"
    /\ UNCHANGED <<MAX_TERMS_IN_MEMORY, scanned, doc_id_to_url, doc_id,
                   part_num, final_index_file, merge_vars, search_vars>>

\* indexer.py:187-188
MergeAndWriteFinal ==
    /\ pc = "merge"
    /\ partial_dir
    /\ find_index' = merge_partials(partial_files)
    /\ final_index_file' = File(write_final_index(find_index'))
    /\ pc' = "done"
    /\ UNCHANGED <<indexer_vars, partial_dir, partial_files, alt_index,
                   alt_order, loaded, search_vars>>

\* indexer.py:105: nothing was spilled, partial_indexes/ was never made and
\* os.listdir raises FileNotFoundError.
MergeWithoutDirectory ==
    /\ pc = "merge"
    /\ ~partial_dir
    /\ pc' = "merge_failed"
    /\ UNCHANGED <<indexer_vars, disk_vars, merge_vars, search_vars>>

Next ==
    \/ IndexDocument
    \/ IndexDocumentWithoutContent
    \/ Spill
    \/ NoSpill
    \/ FinalSpill
    \/ MergeAndWriteFinal
    \/ MergeWithoutDirectory

Spec == Init /\ [][Next]_vars

----------------------------------------------------------------------------
(* Properties of the indexing run *)

\* The (term, doc_id, tf) postings a reader finds in the lines of a file
TriplesOfLines(lines) ==
    UNION {LET p == parse_postings_line(lines[i])
           IN  {<<lines[i].term, d, p[d]>> : d \in DOMAIN p}
              : i \in {j \in DOMAIN lines : lines[j].colon}}

TriplesOfIndex(index) ==
    UNION {{<<t, d, index[t][d]>> : d \in DOMAIN index[t]} : t \in DOMAIN index}

\* The postings of all partial files written so far
WrittenTriples ==
    UNION {TriplesOfLines(partial_files[n]) : n \in DOMAIN partial_files}

RECURSIVE UnboundedIndex(_, _)
\* The accumulator of a run that never spills, after the first n documents
UnboundedIndex(docs, n) ==
    IF n = 0 THEN Empty
    ELSE IF docs[n].has_content
    THEN build_index_for_one_doc(n, docs[n].tokens, docs[n].important_tokens,
                                 UnboundedIndex(docs, n - 1))
    ELSE UnboundedIndex(docs, n - 1)

\* The single partial file such a run writes, read back
UnboundedTriples ==
    TriplesOfLines(write_partial_index(UnboundedIndex(scanned, Len(scanned))))

FinalSpillDone == pc \in {"merge", "done", "merge_failed"}

\* C2: once the corpus is exhausted and the residual spilled, the postings of
\* the partial files written by the run, taken together, are exactly the
\* postings of the one file an unbounded-threshold run of the same corpus
\* writes; no (term, doc_id) stands in two files; and at every point of the
\* run the files written so far plus the accumulator hold exactly the postings
\* of the documents indexed so far.
C2_ThresholdSpillEquivalence ==
    /\ FinalSpillDone => WrittenTriples = UnboundedTriples
    /\ WrittenTriples \cup TriplesOfIndex(inverted_index)
           = TriplesOfIndex(UnboundedIndex(scanned, Len(scanned)))
    /\ \A m, n \in DOMAIN partial_files :
           m # n =>
               {<<x[1], x[2]>> : x \in TriplesOfLines(partial_files[m])}
                   \cap {<<x[1], x[2]>> : x \in TriplesOfLines(partial_files[n])}
               = {}

\* A finished run that spilled at the threshold mid-run and spilled a residual
\* at the end, with a term that stands in two partial files.
C2_Witness ==
    /\ pc = "done"
    /\ Cardinality(DOMAIN partial_files) >= 2
    /\ part_num = Cardinality(DOMAIN partial_files)
    /\ \E m, n \in DOMAIN partial_files :
           /\ m # n
           /\ \E i \in DOMAIN partial_files[m], j \in DOMAIN partial_files[n] :
                  partial_files[m][i].term = partial_files[n][j].term

\* C4: a scanned document without a content field does not abort the run: it
\* has its doc_id and its entry in the doc_id -> URL map, the counter has moved
\* past it, and it has put no posting in the index.
C4_MalformedDocumentRecovered ==
    \A i \in DOMAIN scanned :
        ~scanned[i].has_content =>
            /\ pc # "aborted"
            /\ i \in DOMAIN doc_id_to_url
            /\ doc_id > i
            /\ \A x \in WrittenTriples \cup TriplesOfIndex(inverted_index) :
                   x[2] # i

\* C10 as stated: the accumulator never holds more than MAX_TERMS_IN_MEMORY
\* distinct terms, and it is empty right after every spill.
C10_AccumulatorBound ==
    /\ Cardinality(DOMAIN inverted_index) <= MAX_TERMS_IN_MEMORY
    /\ pc \in {"spilled", "merge"} => inverted_index = Empty

DistinctTerms(doc) == Range(doc.tokens) \cup Range(doc.important_tokens)

\* C10 as amended: at every document boundary (after the threshold check that
\* follows a document) the accumulator holds fewer than MAX_TERMS_IN_MEMORY
\* distinct terms; between indexing a document and that check it holds fewer
\* than MAX_TERMS_IN_MEMORY plus the distinct terms of that document; it is
\* empty right after every spill.
C10_AccumulatorBoundAtBoundaries ==
    /\ pc # "check" =>
           Cardinality(DOMAIN inverted_index) < MAX_TERMS_IN_MEMORY
    /\ pc = "check" =>
           Cardinality(DOMAIN inverted_index)
               < MAX_TERMS_IN_MEMORY
                     + Cardinality(DistinctTerms(scanned[Len(scanned)]))
    /\ pc \in {"spilled", "merge"} => inverted_index = Empty

\* The second threshold spill of a run has just happened, after a document
\* that took the accumulator past the threshold.
C10_Witness ==
    /\ pc = "spilled"
    /\ part_num = 3
    /\ inverted_index = Empty
    /\ Len(partial_files[2]) > MAX_TERMS_IN_MEMORY

----------------------------------------------------------------------------
(* SpecMerge: merge_partials and load_query_postings over whatever lines    *)
(* partial_indexes/ holds                                                  *)

Lines ==
    [colon : {TRUE}, term : QueryTerms, fields : SeqsUpTo(Fields, MaxFields)]
    \cup {[colon |-> FALSE, term |-> "", fields |-> <<>>]}

RECURSIVE SumOver(_, _)
SumOver(f, S) ==
    IF S = {} THEN 0
    ELSE LET x == CHOOSE y \in S : TRUE IN f[x] + SumOver(f, S \ {x})

TotalLines(files) == SumOver([n \in DOMAIN files |-> Len(files[n])], DOMAIN files)

\* The orders in which a set of files can be listed.
Orders(S) ==
    {o \in [1..Cardinality(S) -> S] :
        \A i, j \in DOMAIN o : i # j => o[i] # o[j]}

\* The sets of terms load_query_postings is asked for.
LoadQueries == {<<"a">>, <<"b">>, <<"a", "b">>}

InitMerge ==
    /\ pc = "files"
    /\ IdleIndexer
    /\ partial_dir = TRUE
    /\ partial_files = Empty
    /\ final_index_file = NoFile
    /\ IdleMerge
    /\ IdleSearch

\* A line comes to stand in a partial file (a run of the indexer, an earlier
\* run whose files were left behind, a damaged file).
AppendLine ==
    /\ pc = "files"
    /\ TotalLines(partial_files) < MaxDiskLines
    /\ \E n \in FileNumbers, line \in Lines :
        partial_files' =
            Put(partial_files, n, Append(Get(partial_files, n, <<>>), line))
    /\ UNCHANGED <<pc, indexer_vars, partial_dir, final_index_file,
                   merge_vars, search_vars>>

\* merge_partials(), and the same loop with the files listed in some order
MergePartials ==
    /\ pc = "files"
    /\ find_index' = merge_partials(partial_files)
    /\ \E order \in Orders(DOMAIN partial_files) :
        /\ alt_order' = order
        /\ alt_index' = MergeFiles(Empty, partial_files, order)
    /\ pc' = "merged"
    /\ UNCHANGED <<indexer_vars, disk_vars, loaded, search_vars>>

\* load_query_postings(query_terms) with no final index on disk
LoadPostings ==
    /\ pc = "files"
    /\ \E q \in LoadQueries :
        /\ query' = q
        /\ loaded' = load_query_postings(q, final_index_file, partial_dir,
                                         partial_files).postings
    /\ pc' = "loaded"
    /\ UNCHANGED <<indexer_vars, disk_vars, find_index, alt_index, alt_order,
                   top_k, doc_id_map, outcome>>

NextMerge ==
    \/ AppendLine
    \/ MergePartials
    \/ LoadPostings

SpecMerge == InitMerge /\ [][NextMerge]_vars

----------------------------------------------------------------------------
(* Properties of merge_partials and load_query_postings *)

\* What one partial file alone holds for a term
FilePostings(lines, t) == Get(MergeFile(Empty, lines), t, Empty)

\* C1: after merge_partials, for every (term, doc_id) that some partial file
\* holds, the merged index holds the sum, over the files that hold the pair,
\* of the term frequency each of them gives it.
C1_MergeSumsFrequencies ==
    pc = "merged" =>
        \A t \in QueryTerms, d \in 0..IntMax :
            LET holders == {n \in DOMAIN partial_files :
                               d \in DOMAIN FilePostings(partial_files[n], t)}
                tf == [n \in holders |-> FilePostings(partial_files[n], t)[d]]
            IN  holders # {} =>
                    /\ t \in DOMAIN find_index
                    /\ d \in DOMAIN find_index[t]
                    /\ find_index[t][d] = SumOver(tf, holders)

\* C5: merging the partial files in any order gives the index that
\* merge_partials gives in filename-sorted order.
C5_MergeOrderIndependent ==
    pc = "merged" => alt_index = find_index

OddLine(line) == line.colon /\ Len(line.fields) % 2 # 0

NonIntegerField(line) ==
    line.colon /\ \E i \in DOMAIN line.fields : ~IsInt(line.fields[i])

WithoutLines(files, Bad(_)) ==
    [n \in DOMAIN files |-> SelectSeq(files[n], LAMBDA line : ~Bad(line))]

MalformedLine(line) == OddLine(line) \/ NonIntegerField(line)

\* C8 as stated: a line with an odd number of fields or with a non-integer
\* field counts for nothing, in merge_partials and in load_query_postings: the
\* result is the result for the files without such lines.
C8_MalformedLineSkippedWhole ==
    /\ pc = "merged" =>
           find_index = merge_partials(WithoutLines(partial_files, MalformedLine))
    /\ pc = "loaded" =>
           loaded = load_query_postings(
                        query, final_index_file, partial_dir,
                        WithoutLines(partial_files, MalformedLine)).postings

RECURSIVE IntegerPairs(_)
\* The fields of an even-length postings list, less the pairs that have a
\* non-integer field
IntegerPairs(fields) ==
    IF Len(fields) < 2 THEN <<>>
    ELSE (IF IsInt(fields[1]) /\ IsInt(fields[2])
          THEN <<fields[1], fields[2]>> ELSE <<>>)
             \o IntegerPairs(SubSeq(fields, 3, Len(fields)))

WithIntegerPairsOnly(files) ==
    [n \in DOMAIN files |->
        [i \in DOMAIN files[n] |->
            IF files[n][i].colon
            THEN [files[n][i] EXCEPT !.fields = IntegerPairs(@)]
            ELSE files[n][i]]]

\* C8 as amended: a line with an odd number of fields counts for nothing; of a
\* line with an even number of fields, the (doc_id, tf) pairs that have a
\* non-integer field count for nothing and its other pairs count; in
\* merge_partials and in load_query_postings the result is the result for the
\* files without the odd lines and without those pairs.
C8_OddLineSkippedBadPairSkipped ==
    LET repaired == WithIntegerPairsOnly(WithoutLines(partial_files, OddLine))
    IN  /\ pc = "merged" => find_index = merge_partials(repaired)
        /\ pc = "loaded" =>
               loaded = load_query_postings(query, final_index_file,
                                            partial_dir, repaired).postings

\* A merged file with an odd line next to a line that has a bad pair and a
\* good one, the good one being in the merged index.
C8_Witness ==
    /\ pc = "merged"
    /\ \E n \in DOMAIN partial_files :
        \E i, j \in DOMAIN partial_files[n] :
            /\ OddLine(partial_files[n][i])
            /\ ~OddLine(partial_files[n][j])
            /\ NonIntegerField(partial_files[n][j])
            /\ IntegerPairs(partial_files[n][j].fields) # <<>>
            /\ partial_files[n][j].term \in DOMAIN find_index

----------------------------------------------------------------------------
(* SpecSearch: and_search over an index on disk *)

\* The postings of a term: some doc_ids, each with a tf.
PostingsMaps == UNION {[D -> 1..MaxTf] : D \in SUBSET (1..MaxDocId)}

\* A merged index: a defaultdict holds the terms that have a posting.
Indexes ==
    {[t \in {u \in QueryTerms : f[u] # Empty} |-> f[t]] :
        f \in [QueryTerms -> PostingsMaps]}

\* doc_id_map.json: doc_ids are handed out 1, 2, 3, ... in scan order.
DocIdMaps == UNION {[1..n -> Urls] : n \in 0..MaxDocId}

DocsOf(index) == UNION {DOMAIN index[t] : t \in DOMAIN index}

\* The postings of one document
OnlyDoc(index, d) ==
    [t \in {u \in DOMAIN index : d \in DOMAIN index[u]} |->
        [e \in {d} |-> index[t][d]]]

\* The partial files of a run that spilled after every document
PartialsOf(index) ==
    [d \in DocsOf(index) |-> write_partial_index(OnlyDoc(index, d))]

Queries == SeqsUpTo(QueryTerms, MaxQueryLen)

InitSearch ==
    /\ pc = "ready"
    /\ IdleIndexer
    /\ find_index \in Indexes
    /\ \/ /\ final_index_file = File(write_final_index(find_index))
          /\ partial_dir = TRUE
          /\ partial_files = PartialsOf(find_index)
       \/ /\ final_index_file = NoFile
          /\ partial_dir = TRUE
          /\ partial_files = PartialsOf(find_index)
       \/ /\ find_index = Empty
          /\ final_index_file = NoFile
          /\ partial_dir = FALSE
          /\ partial_files = Empty
    /\ alt_index = Empty /\ alt_order = <<>> /\ loaded = Empty
    /\ doc_id_map \in DocIdMaps
    /\ query = <<>>
    /\ top_k = 0
    /\ outcome = NoOutcome

\* One call of and_search: it returns a list, or lets the
\* FileNotFoundError of load_query_postings through.
Search ==
    /\ pc = "ready"
    /\ \E q \in Queries, k \in 0..MaxTopK :
        /\ query' = q
        /\ top_k' = k
        /\ outcome' = and_search(q, doc_id_map, k, final_index_file,
                                 partial_dir, partial_files)
    /\ pc' = "searched"
    /\ UNCHANGED <<indexer_vars, disk_vars, merge_vars, doc_id_map>>

NextSearch == Search

SpecSearch == InitSearch /\ [][NextSearch]_vars

----------------------------------------------------------------------------
(* Properties of and_search *)

IndexOnDisk == final_index_file.exists \/ partial_dir

\* The doc_ids of a term's postings in the index that was written to disk
PostingDocs(t) == DOMAIN Get(find_index, t, Empty)

\* The doc_ids that every term of the query has a posting for
Intersection(q) ==
    {d \in 1..MaxDocId : \A i \in DOMAIN q : d \in PostingDocs(q[i])}

ResultDocs == {outcome.results[i].doc_id : i \in DOMAIN outcome.results}

UrlOf(d) == Get(doc_id_map, d, "")

Searched == pc = "searched" /\ query # <<>> /\ IndexOnDisk

\* C3 as stated, for top_k >= 1 (what top_k = 0 returns is C6's matter): the
\* doc_ids of the result list are exactly the intersection of the query
\* terms' posting doc_id sets, and the list is empty when a term has no
\* postings.
C3_ResultIsIntersection ==
    (Searched /\ top_k >= 1) =>
        /\ outcome.kind = "results"
        /\ ResultDocs = Intersection(query)
        /\ (\E i \in DOMAIN query : PostingDocs(query[i]) = {}) =>
               outcome.results = <<>>

\* C3 as amended: the doc_ids of the result list all lie in the intersection
\* of the query terms' posting doc_id sets, and they are exactly the
\* intersection when its documents have pairwise distinct URLs and top_k is at
\* least its size; the list is empty when a term has no postings.
C3_ResultWithinIntersection ==
    Searched =>
        /\ outcome.kind = "results"
        /\ ResultDocs \subseteq Intersection(query)
        /\ ( /\ top_k >= Cardinality(Intersection(query))
             /\ \A d, e \in Intersection(query) : d # e => UrlOf(d) # UrlOf(e) )
               => ResultDocs = Intersection(query)
        /\ (\E i \in DOMAIN query : PostingDocs(query[i]) = {}) =>
               outcome.results = <<>>

\* A two-term query whose terms share two documents, one of them has a third,
\* and both shared documents are returned.
C3_Witness ==
    /\ Searched
    /\ Len(query) = 2
    /\ query[1] # query[2]
    /\ Cardinality(Intersection(query)) = 2
    /\ PostingDocs(query[1]) # Intersection(query)
    /\ ResultDocs = Intersection(query)

\* C6: a returned list is no longer than top_k.
C6_LengthAtMostTopK ==
    (pc = "searched" /\ outcome.kind = "results") =>
        Len(outcome.results) <= top_k

\* C7 as stated: with neither index file nor partial directory every query
\* ends in FileNotFoundError; with an index on disk a query returns a list,
\* the empty one when the intersection is empty.
C7_MissingIndexAlwaysRaises ==
    pc = "searched" =>
        /\ ~IndexOnDisk => outcome.kind = "FileNotFoundError"
        /\ IndexOnDisk =>
               /\ outcome.kind = "results"
               /\ (query # <<>> /\ Intersection(query) = {}) =>
                      outcome.results = <<>>

\* C7 as amended: with neither index file nor partial directory, a query that
\* normalizes to at least one term ends in FileNotFoundError, and one that
\* normalizes to no term returns the empty list; with an index on disk a query
\* returns a list, the empty one when the intersection is empty.
C7_MissingIndexRaisesForTerms ==
    pc = "searched" =>
        /\ (~IndexOnDisk /\ query # <<>>) =>
               outcome.kind = "FileNotFoundError"
        /\ (~IndexOnDisk /\ query = <<>>) => outcome = Results(<<>>)
        /\ IndexOnDisk =>
               /\ outcome.kind = "results"
               /\ (query # <<>> /\ Intersection(query) = {}) =>
                      outcome.results = <<>>

\* A query with terms against a directory that holds no index
C7_Witness ==
    /\ pc = "searched"
    /\ ~IndexOnDisk
    /\ Len(query) = 2
    /\ outcome.kind = "FileNotFoundError"

\* The score and_search gives a document, from the index written to disk
ScoreOf(d) ==
    Score(d, query, [t \in Range(query) |-> Get(find_index, t, Empty)],
          Cardinality(DOMAIN doc_id_map))

Outranks(d, e) ==
    \/ ScoreOf(d) > ScoreOf(e)
    \/ ScoreOf(d) = ScoreOf(e) /\ d < e

\* The candidates that no better-ranked candidate shares its URL with
KeptDocs ==
    {d \in Intersection(query) :
        ~\E e \in Intersection(query) : Outranks(e, d) /\ UrlOf(e) = UrlOf(d)}

\* C9: the returned list is the candidates in ranked order (score descending,
\* then doc_id ascending), less those whose URL a better-ranked candidate has,
\* cut to the first top_k.
C9_RankedDedupedTopK ==
    (Searched /\ outcome.kind = "results") =>
        LET n == Cardinality(KeptDocs)
        IN  /\ Len(outcome.results) = (IF top_k < n THEN top_k ELSE n)
            /\ \A i \in DOMAIN outcome.results :
                   LET r == outcome.results[i]
                   IN  /\ r.doc_id \in KeptDocs
                       /\ r.url = UrlOf(r.doc_id)
                       /\ r.score = ScoreOf(r.doc_id)
                       /\ Cardinality({e \in KeptDocs : Outranks(e, r.doc_id)})
                              = i - 1

====
